---------------------------- MODULE Spec2Model ----------------------------
(***************************************************************************)
(* A model of the SparseMatrix class of spmatrix.py.                       *)
(*                                                                         *)
(* Python objects are modelled by a heap: every dict the program creates   *)
(* is a cell of `heap`, and a dict is the sequence of its <<key, value>>   *)
(* items in insertion order (the iteration order of a Python dict).  A     *)
(* SparseMatrix object is a record whose `matrix` field is the heap cell   *)
(* of its outer dict; the values of the outer dict are the heap cells of   *)
(* the row dicts.  Text is a sequence of one-character strings, so that    *)
(* writing and parsing a file are computed character by character.         *)
(***************************************************************************)
EXTENDS Integers, Sequences, FiniteSets, TLC

\* ------------------------------------------------------------------ bounds
\* Dimensions passed to the constructor are 1..MaxDim, indices passed to
\* set_element are 0..MaxDim-1 (so a 1 x 1 matrix is written outside its grid).
MaxDim == 2
\* Values passed to set_element are -MaxVal..MaxVal.
MaxVal == 1
\* Calls of each kind that one run of the arithmetic exploration (Spec) makes.
CoreConstructs == 2
CoreSets == 1
CoreArith == 2
\* Calls of each kind that one run of the loading exploration (SpecFile) makes.
FileWrites == 2
FileLoads == 2
FileArith == 1
\* Calls of each kind that one run of the saving exploration (SpecSave) makes.
SaveConstructs == 1
SaveSets == 2
SaveSaves == 1
SaveLoads == 1

VARIABLES heap, objs, loaded, files, last, quota

vars == <<heap, objs, loaded, files, last, quota>>

\* ------------------------------------------------------------- Python dict
\* dict as the sequence of its items, in insertion order.
DictKeys(d) == [i \in 1..Len(d) |-> d[i][1]]

\* `k in d`
DictHas(d, k) == \E i \in 1..Len(d) : d[i][1] = k

\* d.get(k, default)
DictGet(d, k, default) ==
    IF DictHas(d, k)
    THEN d[CHOOSE i \in 1..Len(d) : d[i][1] = k][2]
    ELSE default

\* d[k] = v : an existing key keeps its place, a new key goes last.
DictPut(d, k, v) ==
    IF DictHas(d, k)
    THEN [i \in 1..Len(d) |-> IF d[i][1] = k THEN <<k, v>> ELSE d[i]]
    ELSE Append(d, <<k, v>>)

\* the set of items of a dict
DictItems(d) == {d[i] : i \in 1..Len(d)}

\* ------------------------------------------------------------- Python str
Digits == <<"0", "1", "2", "3", "4", "5", "6", "7", "8", "9">>

IsDigit(c) == \E i \in 1..10 : Digits[i] = c

DigitVal(c) == (CHOOSE i \in 1..10 : Digits[i] = c) - 1

\* str.isspace for one character
IsSpace(c) == c \in {" ", "\n", "\t", "\r", "\f"}

RECURSIVE LStrip(_)
LStrip(s) ==
    IF s # <<>> /\ IsSpace(Head(s)) THEN LStrip(Tail(s)) ELSE s

RECURSIVE RStrip(_)
RStrip(s) ==
    IF s # <<>> /\ IsSpace(s[Len(s)]) THEN RStrip(SubSeq(s, 1, Len(s) - 1)) ELSE s

\* s.strip()
Strip(s) == RStrip(LStrip(s))

\* index of the first occurrence of character c in s, 0 when there is none
Find(s, c) ==
    IF \E i \in 1..Len(s) : s[i] = c
    THEN CHOOSE i \in 1..Len(s) : s[i] = c /\ \A j \in 1..(i - 1) : s[j] # c
    ELSE 0

\* s.split(sep) for a one-character separator
RECURSIVE Split(_, _)
Split(s, sep) ==
    LET i == Find(s, sep)
    IN  IF i = 0
        THEN <<s>>
        ELSE <<SubSeq(s, 1, i - 1)>> \o Split(SubSeq(s, i + 1, Len(s)), sep)

\* s[1:-1]
Slice1m1(s) == IF Len(s) <= 2 THEN <<>> ELSE SubSeq(s, 2, Len(s) - 1)

\* the lines of a text file as iteration and readline() give them: each line
\* keeps its "\n", the last line may lack it
RECURSIVE SplitLines(_)
SplitLines(text) ==
    LET i == Find(text, "\n")
    IN  IF text = <<>> THEN <<>>
        ELSE IF i = 0 THEN <<text>>
        ELSE <<SubSeq(text, 1, i)>> \o SplitLines(SubSeq(text, i + 1, Len(text)))

\* the digits of an int literal: decimal digits, single underscores between them
DigitsOk(s) ==
    /\ s # <<>>
    /\ \A i \in 1..Len(s) : IsDigit(s[i]) \/ s[i] = "_"
    /\ IsDigit(s[1]) /\ IsDigit(s[Len(s)])
    /\ \A i \in 1..(Len(s) - 1) : ~(s[i] = "_" /\ s[i + 1] = "_")

RECURSIVE DigitsVal(_, _)
DigitsVal(s, acc) ==
    IF s = <<>> THEN acc
    ELSE IF Head(s) = "_" THEN DigitsVal(Tail(s), acc)
    ELSE DigitsVal(Tail(s), 10 * acc + DigitVal(Head(s)))

\* int(s): surrounding whitespace, an optional sign, digits; ok = FALSE is the
\* ValueError that int raises
PyInt(s) ==
    LET t == Strip(s)
        signed == t # <<>> /\ t[1] \in {"+", "-"}
        body == IF signed THEN Tail(t) ELSE t
    IN  IF DigitsOk(body)
        THEN [ok |-> TRUE,
              val |-> IF signed /\ t[1] = "-" THEN 0 - DigitsVal(body, 0)
                      ELSE DigitsVal(body, 0)]
        ELSE [ok |-> FALSE, val |-> 0]

RECURSIVE NatToStr(_)
NatToStr(n) ==
    IF n < 10 THEN <<Digits[n + 1]>>
    ELSE NatToStr(n \div 10) \o <<Digits[(n % 10) + 1]>>

\* str(n) of an int, as an f-string formats it
IntToStr(n) == IF n < 0 THEN <<"-">> \o NatToStr(0 - n) ELSE NatToStr(n)


\* --------------------------------------------------------- SparseMatrix
\* self.matrix.get(row, {}).get(col, 0)
get_element(h, self, row, col) ==
    LET outer == h[self.matrix]
    IN  IF DictHas(outer, row)
        THEN DictGet(h[DictGet(outer, row, 0)], col, 0)
        ELSE 0

\* set_element that treats a zero as "nothing to store"
set_element_SkipZero(h, m, row, col, value) ==
    IF value = 0 THEN h
    ELSE LET h1 == IF DictHas(h[m], row)
                   THEN h
                   ELSE Append([h EXCEPT ![m] = DictPut(@, row, Len(h) + 1)], <<>>)
             r == DictGet(h1[m], row, 0)
         IN  [h1 EXCEPT ![r] = DictPut(@, col, value)]

\* self.matrix[row][col] = value, after creating the row dict when the row is
\* new; m is the heap cell of self.matrix.  The heap after the call.
set_element(h, m, row, col, value) ==
    LET h1 == IF DictHas(h[m], row)
              THEN h
              ELSE Append([h EXCEPT ![m] = DictPut(@, row, Len(h) + 1)], <<>>)
        r == DictGet(h1[m], row, 0)
    IN  [h1 EXCEPT ![r] = DictPut(@, col, value)]

\* SparseMatrix(numRows=..., numCols=...): the object; its dict {} is the heap
\* cell m, which the caller allocates.
NewMatrix(m, numRows, numCols) ==
    [matrix |-> m, numRows |-> numRows, numCols |-> numCols]

\* the loops of add with the operator of subtract
RECURSIVE AddLoop_Minus(_, _, _, _, _, _)
AddLoop_Minus(h, self, other, result, row, col) ==
    IF row >= self.numRows THEN h
    ELSE IF col >= self.numCols THEN AddLoop_Minus(h, self, other, result, row + 1, 0)
    ELSE AddLoop_Minus(set_element(h, result.matrix, row, col,
                                   get_element(h, self, row, col)
                                       - get_element(h, other, row, col)),
                       self, other, result, row, col + 1)

\* the two nested range loops of add, from cell (row, col) on
RECURSIVE AddLoop(_, _, _, _, _, _)
AddLoop(h, self, other, result, row, col) ==
    IF row >= self.numRows THEN h
    ELSE IF col >= self.numCols THEN AddLoop(h, self, other, result, row + 1, 0)
    ELSE AddLoop(set_element(h, result.matrix, row, col,
                             get_element(h, self, row, col)
                                 + get_element(h, other, row, col)),
                 self, other, result, row, col + 1)

\* add that writes the sums into self's own dict instead of a new one
add_Aliased(h, self, other) ==
    LET result == NewMatrix(self.matrix, self.numRows, self.numCols)
    IN  [heap |-> AddLoop(h, self, other, result, 0, 0),
         obj |-> result, err |-> "none"]

\* self.add(other): the heap after the call and the object returned
add(h, self, other) ==
    LET result == NewMatrix(Len(h) + 1, self.numRows, self.numCols)
    IN  [heap |-> AddLoop(Append(h, <<>>), self, other, result, 0, 0),
         obj |-> result, err |-> "none"]

\* the loops of subtract with the operands exchanged
RECURSIVE SubtractLoop_Swapped(_, _, _, _, _, _)
SubtractLoop_Swapped(h, self, other, result, row, col) ==
    IF row >= self.numRows THEN h
    ELSE IF col >= self.numCols
    THEN SubtractLoop_Swapped(h, self, other, result, row + 1, 0)
    ELSE SubtractLoop_Swapped(set_element(h, result.matrix, row, col,
                                          get_element(h, other, row, col)
                                              - get_element(h, self, row, col)),
                              self, other, result, row, col + 1)

\* the two nested range loops of subtract, from cell (row, col) on
RECURSIVE SubtractLoop(_, _, _, _, _, _)
SubtractLoop(h, self, other, result, row, col) ==
    IF row >= self.numRows THEN h
    ELSE IF col >= self.numCols THEN SubtractLoop(h, self, other, result, row + 1, 0)
    ELSE SubtractLoop(set_element(h, result.matrix, row, col,
                                  get_element(h, self, row, col)
                                      - get_element(h, other, row, col)),
                      self, other, result, row, col + 1)

\* subtract whose result takes the dimensions of other
subtract_OtherDims(h, self, other) ==
    LET result == NewMatrix(Len(h) + 1, other.numRows, other.numCols)
    IN  [heap |-> SubtractLoop(Append(h, <<>>), self, other, result, 0, 0),
         obj |-> result, err |-> "none"]

\* self.subtract(other)
subtract(h, self, other) ==
    LET result == NewMatrix(Len(h) + 1, self.numRows, self.numCols)
    IN  [heap |-> SubtractLoop(Append(h, <<>>), self, other, result, 0, 0),
         obj |-> result, err |-> "none"]

\* sum(self.get_element(row, k) * other.get_element(k, col) for k in range(numCols))
RECURSIVE DotProduct(_, _, _, _, _, _)
DotProduct(h, self, other, row, col, k) ==
    IF k >= self.numCols THEN 0
    ELSE get_element(h, self, row, k) * get_element(h, other, k, col)
             + DotProduct(h, self, other, row, col, k + 1)

\* the loops of multiply: rows are the keys of self.matrix, cols the keys of
\* other.matrix, both in iteration order; from the i-th row, j-th col on
RECURSIVE MultiplyLoop(_, _, _, _, _, _, _, _)
MultiplyLoop(h, self, other, result, rows, cols, i, j) ==
    IF i > Len(rows) THEN h
    ELSE IF j > Len(cols)
    THEN MultiplyLoop(h, self, other, result, rows, cols, i + 1, 1)
    ELSE IF DictHas(h[DictGet(h[self.matrix], rows[i], 0)], cols[j])
    THEN MultiplyLoop(set_element(h, result.matrix, rows[i], cols[j],
                                  DotProduct(h, self, other, rows[i], cols[j], 0)),
                      self, other, result, rows, cols, i, j + 1)
    ELSE MultiplyLoop(h, self, other, result, rows, cols, i, j + 1)

\* multiply that compares the column counts of the two operands
multiply_WrongCheck(h, self, other) ==
    IF self.numCols # other.numCols
    THEN [heap |-> h, obj |-> NewMatrix(0, 0, 0), err |-> "incompatible sizes"]
    ELSE LET result == NewMatrix(Len(h) + 1, self.numRows, other.numCols)
         IN  [heap |-> MultiplyLoop(Append(h, <<>>), self, other, result,
                                    DictKeys(h[self.matrix]),
                                    DictKeys(h[other.matrix]), 1, 1),
              obj |-> result, err |-> "none"]

\* self.multiply(other); err = "incompatible sizes" is the ValueError raised
\* before the result is created
multiply(h, self, other) ==
    IF self.numCols # other.numRows
    THEN [heap |-> h, obj |-> NewMatrix(0, 0, 0), err |-> "incompatible sizes"]
    ELSE LET result == NewMatrix(Len(h) + 1, self.numRows, other.numCols)
         IN  [heap |-> MultiplyLoop(Append(h, <<>>), self, other, result,
                                    DictKeys(h[self.matrix]),
                                    DictKeys(h[other.matrix]), 1, 1),
              obj |-> result, err |-> "none"]


\* ----------------------------------------------------------------- files
\* entry = line.strip()[1:-1].split(','); int of its first three fields.
\* ok = FALSE is the IndexError or ValueError the line raises.
parse_entry(line) ==
    LET entry == Split(Slice1m1(Strip(line)), ",")
    IN  IF Len(entry) < 3
        THEN [ok |-> FALSE, row |-> 0, col |-> 0, value |-> 0]
        ELSE LET r == PyInt(entry[1])
                 c == PyInt(entry[2])
                 v == PyInt(entry[3])
             IN  [ok |-> r.ok /\ c.ok /\ v.ok,
                  row |-> r.val, col |-> c.val, value |-> v.val]

\* matrix[row][col] = value of load_matrix, after creating the row dict
\* when the row is new; m is the heap cell of the local dict `matrix`
LoadStore(h, m, row, col, value) ==
    LET h1 == IF DictHas(h[m], row)
              THEN h
              ELSE Append([h EXCEPT ![m] = DictPut(@, row, Len(h) + 1)], <<>>)
        r == DictGet(h1[m], row, 0)
    IN  [h1 EXCEPT ![r] = DictPut(@, col, value)]

\* `for line in file` of load_matrix, from the i-th of the lines on; a line
\* that raises ends the loop with ok = FALSE
RECURSIVE LoadLines(_, _, _, _)
LoadLines(h, m, lines, i) ==
    IF i > Len(lines) THEN [ok |-> TRUE, heap |-> h]
    ELSE IF Strip(lines[i]) = <<>> THEN LoadLines(h, m, lines, i + 1)
    ELSE LET e == parse_entry(lines[i])
         IN  IF e.ok
             THEN LoadLines(LoadStore(h, m, e.row, e.col, e.value), m, lines, i + 1)
             ELSE [ok |-> FALSE, heap |-> h]

\* the value of a header line: int(file.readline().split('=')[1]); a line
\* without "=" raises IndexError
HeaderValue(line) ==
    LET f == Split(line, "=")
    IN  IF Len(f) < 2 THEN [ok |-> FALSE, val |-> 0] ELSE PyInt(f[2])

\* self.load_matrix(file_path) on a file, f = [exists, text].  ok = FALSE is
\* the ValueError "Input file has wrong format"; otherwise the heap after the
\* call, the heap cell of the dict returned, and the rows and cols assigned to
\* self.numRows and self.numCols.
load_matrix(h, f) ==
    LET lines == SplitLines(f.text)
        line1 == IF Len(lines) >= 1 THEN lines[1] ELSE <<>>
        line2 == IF Len(lines) >= 2 THEN lines[2] ELSE <<>>
        rows == HeaderValue(line1)
        cols == HeaderValue(line2)
        m == Len(h) + 1
        body == LoadLines(Append(h, <<>>), m, lines, 3)
    IN  IF f.exists /\ rows.ok /\ cols.ok /\ body.ok
        THEN [ok |-> TRUE, heap |-> body.heap, matrix |-> m,
              rows |-> rows.val, cols |-> cols.val]
        ELSE [ok |-> FALSE, heap |-> h, matrix |-> 0, rows |-> 0, cols |-> 0]

\* SparseMatrix(matrix_file=...) once load_matrix has returned the dict in
\* heap cell m: numRows and numCols are read from the entries (0, 0), (0, 1)
FileMatrix(h, m) ==
    LET self == NewMatrix(m, 0, 0)
    IN  NewMatrix(m, get_element(h, self, 0, 0), get_element(h, self, 0, 1))

\* the lines save_to_file writes for the items of one row dict, from the
\* j-th item on
RECURSIVE SaveRow(_, _, _)
SaveRow(row, items, j) ==
    IF j > Len(items) THEN <<>>
    ELSE <<"(">> \o IntToStr(row) \o <<",", " ">> \o IntToStr(items[j][1])
             \o <<",", " ">> \o IntToStr(items[j][2]) \o <<")", "\n">>
             \o SaveRow(row, items, j + 1)

\* the lines save_to_file writes for the rows of self.matrix, from the i-th
\* row on
RECURSIVE SaveRows(_, _, _)
SaveRows(h, outer, i) ==
    IF i > Len(outer) THEN <<>>
    ELSE SaveRow(outer[i][1], h[outer[i][2]], 1) \o SaveRows(h, outer, i + 1)

\* the text save_to_file writes
save_to_file(h, self) ==
    <<"r", "o", "w", "s", "=">> \o IntToStr(self.numRows) \o <<"\n">>
        \o <<"c", "o", "l", "s", "=">> \o IntToStr(self.numCols) \o <<"\n">>
        \o SaveRows(h, h[self.matrix], 1)

\* ------------------------------------------------- files the caller supplies
\* the file A of the scenario: a full 2 x 2 matrix
FileA ==
    <<"r", "o", "w", "s", "=", "2", "\n", "c", "o", "l", "s", "=", "2",
      "\n", "(", "0", ",", "0", ",", "1", ")", "\n", "(", "0", ",", "1",
      ",", "2", ")", "\n", "(", "1", ",", "0", ",", "3", ")", "\n", "(",
      "1", ",", "1", ",", "4", ")", "\n">>

\* the file B of the scenario
FileB ==
    <<"r", "o", "w", "s", "=", "2", "\n", "c", "o", "l", "s", "=", "2",
      "\n", "(", "0", ",", "0", ",", "5", ")", "\n", "(", "1", ",", "1",
      ",", "6", ")", "\n">>

\* a file whose entries (0,0) and (0,1) hold its own dimensions; blank lines, spaces
FileSquare ==
    <<"r", "o", "w", "s", "=", "2", "\n", "c", "o", "l", "s", "=", "2",
      "\n", "\n", "(", "0", ",", " ", "0", ",", " ", "2", ")", "\n", "(",
      "0", ",", " ", "1", ",", " ", "2", ")", "\n", " ", " ", "\n", "(",
      "1", ",", " ", "0", ",", " ", "-", "1", ")", "\n">>

\* data lines of four fields
FileFourFields ==
    <<"r", "o", "w", "s", "=", "1", "\n", "c", "o", "l", "s", "=", "1",
      "\n", "(", "0", ",", "0", ",", "1", ",", "9", ")", "\n", "(", "0",
      ",", "1", ",", "1", ",", "9", ")", "\n">>

\* a data line of two fields
FileTwoFields ==
    <<"r", "o", "w", "s", "=", "1", "\n", "c", "o", "l", "s", "=", "1",
      "\n", "(", "0", ",", "0", ")", "\n">>

\* a data line with a field that is no integer
FileNotInt ==
    <<"r", "o", "w", "s", "=", "1", "\n", "c", "o", "l", "s", "=", "1",
      "\n", "(", "0", ",", "x", ",", "1", ")", "\n">>

\* a file without the two header lines
FileNoHeader ==
    <<"(", "0", ",", "0", ",", "1", ")", "\n">>

\* a header line whose value is no integer
FileBadHeader ==
    <<"r", "o", "w", "s", "=", "x", "\n", "c", "o", "l", "s", "=", "1", "\n">>

SampleFiles ==
    {FileA, FileB, FileSquare, FileFourFields,
     FileTwoFields, FileNotInt, FileNoHeader, FileBadHeader}

\* ------------------------------------------------------------ the program
Paths == {"m.txt"}

Dims == 1..MaxDim
Indices == 0..(MaxDim - 1)
Values == (0 - MaxVal)..MaxVal

\* no call made yet
NoCall ==
    [op |-> "none", self |-> 0, other |-> 0, result |-> 0, err |-> "none",
     row |-> 0, col |-> 0, value |-> 0, path |-> ""]

\* no object exists, no file is written; the quota is the number of calls of
\* each kind still to be made
InitState ==
    /\ heap = <<>>
    /\ objs = <<>>
    /\ loaded = <<>>
    /\ files = [p \in Paths |-> [exists |-> FALSE, text |-> <<>>]]
    /\ last = NoCall

Init ==
    /\ InitState
    /\ quota = [construct |-> CoreConstructs, set |-> CoreSets, arith |-> CoreArith,
                write |-> 0, load |-> 0, save |-> 0]

InitFile ==
    /\ InitState
    /\ quota = [construct |-> 0, set |-> 0, arith |-> FileArith,
                write |-> FileWrites, load |-> FileLoads, save |-> 0]

InitSave ==
    /\ InitState
    /\ quota = [construct |-> SaveConstructs, set |-> SaveSets, arith |-> 0,
                write |-> 0, load |-> SaveLoads, save |-> SaveSaves]

\* SparseMatrix(numRows=numRows, numCols=numCols)
Construct(numRows, numCols) ==
    /\ quota.construct > 0
    /\ quota' = [quota EXCEPT !.construct = @ - 1]
    /\ heap' = Append(heap, <<>>)
    /\ objs' = Append(objs, NewMatrix(Len(heap) + 1, numRows, numCols))
    /\ loaded' = Append(loaded, <<>>)
    /\ last' = [NoCall EXCEPT !.op = "construct", !.result = Len(objs) + 1]
    /\ UNCHANGED files

\* SparseMatrix(matrix_file=p): load_matrix raises, or the object is created
\* with the dimensions read from its entries (0, 0) and (0, 1)
ConstructFromFile(p) ==
    /\ quota.load > 0
    /\ quota' = [quota EXCEPT !.load = @ - 1]
    /\ LET l == load_matrix(heap, files[p])
       IN  IF l.ok
           THEN /\ heap' = l.heap
                /\ objs' = Append(objs, FileMatrix(l.heap, l.matrix))
                /\ loaded' = Append(loaded, <<l.rows, l.cols>>)
                /\ last' = [NoCall EXCEPT !.op = "load", !.path = p,
                                          !.result = Len(objs) + 1]
           ELSE /\ last' = [NoCall EXCEPT !.op = "load", !.path = p,
                                          !.err = "wrong format"]
                /\ UNCHANGED <<heap, objs, loaded>>
    /\ UNCHANGED files

\* objs[a].set_element(row, col, value)
SetElement(a, row, col, value) ==
    /\ quota.set > 0
    /\ quota' = [quota EXCEPT !.set = @ - 1]
    /\ heap' = set_element(heap, objs[a].matrix, row, col, value)
    /\ last' = [NoCall EXCEPT !.op = "set", !.self = a, !.row = row, !.col = col,
                              !.value = value]
    /\ UNCHANGED <<objs, loaded, files>>

\* the outcome r of an arithmetic call op on objs[a] and objs[b]
Arith(op, a, b, r) ==
    /\ quota.arith > 0
    /\ quota' = [quota EXCEPT !.arith = @ - 1]
    /\ heap' = r.heap
    /\ IF r.err = "none"
       THEN /\ objs' = Append(objs, r.obj)
            /\ loaded' = Append(loaded, <<>>)
            /\ last' = [NoCall EXCEPT !.op = op, !.self = a, !.other = b,
                                      !.result = Len(objs) + 1]
       ELSE /\ last' = [NoCall EXCEPT !.op = op, !.self = a, !.other = b,
                                      !.err = r.err]
            /\ UNCHANGED <<objs, loaded>>
    /\ UNCHANGED files

\* objs[a].add(objs[b])
Add(a, b) == Arith("add", a, b, add(heap, objs[a], objs[b]))

\* objs[a].subtract(objs[b])
Subtract(a, b) == Arith("subtract", a, b, subtract(heap, objs[a], objs[b]))

\* objs[a].multiply(objs[b])
Multiply(a, b) == Arith("multiply", a, b, multiply(heap, objs[a], objs[b]))

\* objs[a].save_to_file(p)
SaveToFile(a, p) ==
    /\ quota.save > 0
    /\ quota' = [quota EXCEPT !.save = @ - 1]
    /\ files' = [files EXCEPT ![p] = [exists |-> TRUE,
                                       text |-> save_to_file(heap, objs[a])]]
    /\ last' = [NoCall EXCEPT !.op = "save", !.self = a, !.path = p]
    /\ UNCHANGED <<heap, objs, loaded>>

\* the caller puts a file of its own at path p
WriteFile(p, text) ==
    /\ quota.write > 0
    /\ quota' = [quota EXCEPT !.write = @ - 1]
    /\ files' = [files EXCEPT ![p] = [exists |-> TRUE, text |-> text]]
    /\ last' = [NoCall EXCEPT !.op = "write", !.path = p]
    /\ UNCHANGED <<heap, objs, loaded>>

Objects == 1..Len(objs)

Next ==
    \/ \E r \in Dims, c \in Dims : Construct(r, c)
    \/ \E a \in Objects, row \in Indices, col \in Indices, v \in Values :
           SetElement(a, row, col, v)
    \/ \E a \in Objects, b \in Objects : Add(a, b)
    \/ \E a \in Objects, b \in Objects : Subtract(a, b)
    \/ \E a \in Objects, b \in Objects : Multiply(a, b)

NextFile ==
    \/ \E p \in Paths, text \in SampleFiles : WriteFile(p, text)
    \/ \E p \in Paths : ConstructFromFile(p)
    \/ \E a \in Objects, b \in Objects : Multiply(a, b)

NextSave ==
    \/ \E r \in Dims, c \in Dims : Construct(r, c)
    \/ \E a \in Objects, row \in Indices, col \in Indices, v \in Values :
           SetElement(a, row, col, v)
    \/ \E a \in Objects, p \in Paths : SaveToFile(a, p)
    \/ \E p \in Paths : ConstructFromFile(p)

Spec == Init /\ [][Next]_vars

SpecFile == InitFile /\ [][NextFile]_vars

SpecSave == InitSave /\ [][NextSave]_vars

\* ------------------------------------------------------------ vocabulary
\* the cells of the declared grid of matrix o
Grid(o) == (0..(o.numRows - 1)) \X (0..(o.numCols - 1))

\* the positions the properties read: the largest grid and a margin around it
Probe == ((0 - 1)..MaxDim) \X ((0 - 1)..MaxDim)

\* the stored positions of matrix o
StoredAt(h, o) ==
    UNION {{<<h[o.matrix][i][1], it[1]>> : it \in DictItems(h[h[o.matrix][i][2]])} :
              i \in 1..Len(h[o.matrix])}

\* the stored entries (row, col, value) of matrix o
Entries(h, o) ==
    UNION {{<<h[o.matrix][i][1], it[1], it[2]>> : it \in DictItems(h[h[o.matrix][i][2]])} :
              i \in 1..Len(h[o.matrix])}

\* the number of items the row dicts of matrix o hold
RECURSIVE ItemCount(_, _, _)
ItemCount(h, o, i) ==
    IF i > Len(h[o.matrix]) THEN 0
    ELSE Len(h[h[o.matrix][i][2]]) + ItemCount(h, o, i + 1)

\* every stored entry of o lies in its declared grid
InBounds(h, o) == StoredAt(h, o) \subseteq Grid(o)

\* the heap cells that make up the store of matrix o
Cells(h, o) == {o.matrix} \cup {h[o.matrix][i][2] : i \in 1..Len(h[o.matrix])}

\* the step is a call of op
Called(op) == quota' # quota /\ last'.op = op

ArithOps == {"add", "subtract", "multiply"}

\* ------------------------------------------------------------- properties
\* C1: after A.add(B) on matrices of equal dimensions (r, c), the call has
\* returned a matrix R with R.get_element(i, j) = A.get_element(i, j) +
\* B.get_element(i, j) for every cell (i, j) of the r x c grid.
C1_AddSumsCells ==
    (/\ last.op = "add"
     /\ objs[last.self].numRows = objs[last.other].numRows
     /\ objs[last.self].numCols = objs[last.other].numCols)
    => /\ last.err = "none"
       /\ \A c \in Grid(objs[last.self]) :
              get_element(heap, objs[last.result], c[1], c[2])
                  = get_element(heap, objs[last.self], c[1], c[2])
                        + get_element(heap, objs[last.other], c[1], c[2])

\* an add of two distinct matrices of equal dimensions in which both operands
\* hold a non-zero value at the same cell
C1_Witness ==
    /\ last.op = "add"
    /\ last.self # last.other
    /\ objs[last.self].numRows = objs[last.other].numRows
    /\ objs[last.self].numCols = objs[last.other].numCols
    /\ \E c \in Grid(objs[last.self]) :
           /\ get_element(heap, objs[last.self], c[1], c[2]) # 0
           /\ get_element(heap, objs[last.other], c[1], c[2]) # 0

\* C3: a multiply call with self.numCols # other.numRows raises the
\* incompatible-sizes error, returns no matrix, and leaves the heap and the
\* objects exactly as they were (nothing is created, no entry is written).
C3_MultiplyRaisesFirst ==
    [][(/\ Called("multiply")
        /\ objs[last'.self].numCols # objs[last'.other].numRows)
       => /\ last'.err = "incompatible sizes"
          /\ last'.result = 0
          /\ heap' = heap
          /\ objs' = objs]_vars

\* a multiply of a matrix with columns by a matrix with a different number of
\* rows has raised
C3_Witness ==
    /\ last.op = "multiply"
    /\ last.err = "incompatible sizes"
    /\ objs[last.self].numCols # objs[last.other].numRows
    /\ StoredAt(heap, objs[last.self]) # {}

\* C5: when A.add(B) on matrices of equal dimensions is followed by
\* subtract(B) on its result, the matrix returned holds A.get_element(i, j) at
\* every cell (i, j) of the grid.
C5_SubtractUndoesAdd ==
    [][(/\ last.op = "add"
        /\ last.err = "none"
        /\ Called("subtract")
        /\ last'.self = last.result
        /\ last'.other = last.other
        /\ objs[last.self].numRows = objs[last.other].numRows
        /\ objs[last.self].numCols = objs[last.other].numCols)
       => /\ last'.err = "none"
          /\ \A c \in Grid(objs[last.self]) :
                 get_element(heap', objs'[last'.result], c[1], c[2])
                     = get_element(heap, objs[last.self], c[1], c[2])]_vars

\* objs[3] holds the sums of objs[1] and objs[2], of equal dimensions;
\* objs[4] is objs[3].subtract(objs[2]), and objs[2] holds a non-zero value
C5_Witness ==
    /\ last.op = "subtract"
    /\ Len(objs) = 4
    /\ last.self = 3 /\ last.other = 2 /\ last.result = 4
    /\ objs[1].numRows = objs[2].numRows /\ objs[1].numCols = objs[2].numCols
    /\ \A c \in Grid(objs[1]) :
           get_element(heap, objs[3], c[1], c[2])
               = get_element(heap, objs[1], c[1], c[2])
                     + get_element(heap, objs[2], c[1], c[2])
    /\ \E c \in Grid(objs[1]) : get_element(heap, objs[2], c[1], c[2]) # 0

C7_OperandsUntouched ==
    [][/\ (\E op \in ArithOps : Called(op))
          => /\ SubSeq(heap', 1, Len(heap)) = heap
             /\ SubSeq(objs', 1, Len(objs)) = objs
             /\ last'.err = "none"
                => /\ Len(objs') = Len(objs) + 1
                   /\ last'.result = Len(objs')
                   /\ \A m \in 1..Len(objs) :
                          Cells(heap', objs'[m])
                              \cap Cells(heap', objs'[last'.result]) = {}
       /\ Called("set")
          => \A m \in 1..Len(objs) : \A c \in Probe :
                 m # last'.self
                 => get_element(heap', objs'[m], c[1], c[2])
                        = get_element(heap, objs[m], c[1], c[2])]_vars

\* objs[2] is what an arithmetic call on objs[1] with itself returned; a
\* non-zero value has been set in objs[2] at a cell of the grid, and objs[1]
\* still reads zero there
C7_Witness ==
    /\ last.op = "set"
    /\ last.self = 2
    /\ last.value # 0
    /\ quota.construct = CoreConstructs - 1
    /\ quota.arith = CoreArith - 1
    /\ <<last.row, last.col>> \in Grid(objs[1])
    /\ get_element(heap, objs[1], last.row, last.col) = 0
    /\ get_element(heap, objs[2], last.row, last.col) = last.value

\* C9: add and subtract never raise; the matrix returned has self's numRows
\* and numCols, stores exactly one entry for every cell of self's grid and
\* none outside it, and the value at (i, j) is self.get_element(i, j) +/-
\* other.get_element(i, j), whatever the shape and the entries of other.
C9_DenseResult ==
    last.op \in {"add", "subtract"}
    => LET self == objs[last.self]
           other == objs[last.other]
       IN  /\ last.err = "none"
           /\ last.result \in 1..Len(objs)
           /\ objs[last.result].numRows = self.numRows
           /\ objs[last.result].numCols = self.numCols
           /\ StoredAt(heap, objs[last.result]) = Grid(self)
           /\ ItemCount(heap, objs[last.result], 1) = Cardinality(Grid(self))
           /\ \A c \in Grid(self) :
                  get_element(heap, objs[last.result], c[1], c[2])
                      = IF last.op = "add"
                        THEN get_element(heap, self, c[1], c[2])
                                 + get_element(heap, other, c[1], c[2])
                        ELSE get_element(heap, self, c[1], c[2])
                                 - get_element(heap, other, c[1], c[2])

\* a subtract whose other operand is larger than self and stores an entry
\* outside self's grid, and whose result stores a zero
C9_Witness ==
    /\ last.op = "subtract"
    /\ objs[last.other].numRows > objs[last.self].numRows
    /\ \E e \in StoredAt(heap, objs[last.other]) : e \notin Grid(objs[last.self])
    /\ \E e \in Entries(heap, objs[last.result]) : e[3] = 0

\* C10: when every stored entry of both operands of add, subtract or multiply
\* lies in the operand's declared grid, every entry of the matrix returned
\* lies in the declared grid of that matrix.
C10_ResultInBounds ==
    (/\ last.op \in ArithOps
     /\ last.err = "none"
     /\ InBounds(heap, objs[last.self])
     /\ InBounds(heap, objs[last.other]))
    => InBounds(heap, objs[last.result])

\* the sum over k in m..(n - 1) of a.get_element(i, k) * b.get_element(k, j)
RECURSIVE SumOfProducts(_, _, _, _, _, _, _)
SumOfProducts(h, a, b, i, j, m, n) ==
    IF m >= n THEN 0
    ELSE get_element(h, a, i, m) * get_element(h, b, m, j)
             + SumOfProducts(h, a, b, i, j, m + 1, n)

\* C2: when both operands of multiply were constructed from files and the
\* header of self's file declares as many columns (n) as the header of
\* other's file declares rows, the call succeeds and the matrix returned
\* holds, at every cell (i, j) of the declared r x c grid, the sum over k in
\* 0..n-1 of self.get_element(i, k) * other.get_element(k, j).
C2_MultiplyOfLoadedFiles ==
    (/\ last.op = "multiply"
     /\ loaded[last.self] # <<>>
     /\ loaded[last.other] # <<>>
     /\ loaded[last.self][2] = loaded[last.other][1])
    => /\ last.err = "none"
       /\ \A i \in 0..(loaded[last.self][1] - 1) :
              \A j \in 0..(loaded[last.other][2] - 1) :
                  get_element(heap, objs[last.result], i, j)
                      = SumOfProducts(heap, objs[last.self], objs[last.other],
                                      i, j, 0, loaded[last.self][2])

\* a header line as the file format gives it: key=<integer>
HeaderOk(line, key) ==
    LET f == Split(Strip(line), "=")
    IN  Len(f) = 2 /\ f[1] = key /\ PyInt(f[2]).ok

\* an entry line as the file format gives it: (<row>, <col>, <value>), three
\* integers between parentheses
EntryOk(line) ==
    LET t == Strip(line)
        f == Split(Slice1m1(t), ",")
    IN  /\ Len(t) >= 2 /\ t[1] = "(" /\ t[Len(t)] = ")"
        /\ Len(f) = 3
        /\ \A k \in 1..3 : PyInt(f[k]).ok

\* a file in the format: the rows line, the cols line, then blank lines and
\* entry lines
WellFormed(f) ==
    LET lines == SplitLines(f.text)
    IN  /\ f.exists
        /\ Len(lines) >= 2
        /\ HeaderOk(lines[1], <<"r", "o", "w", "s">>)
        /\ HeaderOk(lines[2], <<"c", "o", "l", "s">>)
        /\ \A i \in 3..Len(lines) : Strip(lines[i]) = <<>> \/ EntryOk(lines[i])

\* C8: constructing a matrix from a file whose header is missing or malformed,
\* or that has a data line that does not split into exactly three integers,
\* raises the wrong-format error, and no matrix is constructed.
C8_MalformedFileRejected ==
    (last.op = "load" /\ ~WellFormed(files[last.path]))
    => (last.err = "wrong format" /\ last.result = 0)

\* C4: when a matrix whose stored entries are non-zero and lie in its declared
\* grid is saved and a matrix is then constructed from that file, the
\* construction succeeds and the new matrix has the same numRows, the same
\* numCols and the same set of stored entries.
C4_RoundTrip ==
    [][(/\ last.op = "save"
        /\ Called("load")
        /\ last'.path = last.path
        /\ InBounds(heap, objs[last.self])
        /\ \A e \in Entries(heap, objs[last.self]) : e[3] # 0)
       => /\ last'.err = "none"
          /\ objs'[last'.result].numRows = objs[last.self].numRows
          /\ objs'[last'.result].numCols = objs[last.self].numCols
          /\ Entries(heap', objs'[last'.result]) = Entries(heap, objs[last.self])]_vars

=============================================================================
